---- MODULE Spec2Model ----
(* A model of forms.py: the Form -> Group -> FormItem tree built from a      *)
(* specification, its HTML rendering, its front-matter export with hooks,    *)
(* and save_to_file.                                                         *)
(*                                                                           *)
(* A Python str is a sequence of one-character strings. The fixed text of a  *)
(* format string is kept as one element per literal chunk, so a rendered     *)
(* string is the concatenation, in order, of literal chunks and the          *)
(* characters of the interpolated fields.                                    *)
EXTENDS Integers, Sequences, FiniteSets, TLC

VARIABLES forms, post, loaded, calls, result, file

vars == <<forms, post, loaded, calls, result, file>>

-----------------------------------------------------------------------------
(* Bounds of the model.                                                      *)

\* Forms constructed in one run.
MaxForms == 2
\* Groups over all the forms constructed.
MaxGroups == 2
\* Items over all the forms constructed.
MaxItems == 2
\* _serialize_as_front_matter calls that return, per form.
MaxCalls == 2

-----------------------------------------------------------------------------
(* str methods.                                                              *)

UpperCase == <<"A","B","C","D","E","F","G","H","I","J","K","L","M",
               "N","O","P","Q","R","S","T","U","V","W","X","Y","Z">>
LowerCase == <<"a","b","c","d","e","f","g","h","i","j","k","l","m",
               "n","o","p","q","r","s","t","u","v","w","x","y","z">>

LowerChar(c) ==
    IF \E i \in 1..Len(UpperCase) : UpperCase[i] = c
    THEN LowerCase[CHOOSE i \in 1..Len(UpperCase) : UpperCase[i] = c]
    ELSE c

\* str.lower()
lower(s) == [i \in 1..Len(s) |-> LowerChar(s[i])]

\* str.replace(old, new) for one-character old and new
replace(s, old, new) == [i \in 1..Len(s) |-> IF s[i] = old THEN new ELSE s[i]]

slugify(value) == lower(replace(value, " ", "-"))

\* The number of places at which sub occurs in s.
Occurrences(sub, s) ==
    Cardinality({i \in 1..(Len(s) - Len(sub) + 1) :
                    SubSeq(s, i, i + Len(sub) - 1) = sub})

-----------------------------------------------------------------------------
(* Module-level names.                                                       *)

HTML_TYPE == {"text", "number", "email", "submit", "textarea"}
CONTROL_TYPES == {"submit"}

\* The keys of RENDER_FUNCTIONS.
RenderTypes == {"text", "number", "email", "submit", "textarea"}

\* The f-string of the text, number and email renderers after its first chunk.
InputAttributes(x) ==
    x.id \o <<"\" name=\"">> \o x.name \o <<"\" value=\"">> \o x.value
        \o <<"\" placeholder=\"">> \o x.placeholder \o <<"\">">>

\* RENDER_FUNCTIONS[type](x), for type among its keys.
RENDER_FUNCTIONS(type, x) ==
    CASE type = "text"   -> <<"<input type=\"text\" id=\"">> \o InputAttributes(x)
      [] type = "number" -> <<"<input type=\"number\" id=\"">> \o InputAttributes(x)
      [] type = "email"  -> <<"<input type=\"email\" id=\"">> \o InputAttributes(x)
      [] type = "submit" ->
            <<"<button id=\"">> \o x.id \o <<"\" name=\"">> \o x.name
                \o <<"\">">> \o x.value \o <<"</button>">>
      [] type = "textarea" ->
            <<"<textarea id=\"">> \o x.id \o <<"\" name=\"">> \o x.name
                \o <<"\" placeholder=\"">> \o x.placeholder
                \o <<"\">">> \o x.value \o <<"</textarea>">>

\* HTML_TEMPLATE.format(form_name=..., content=...)
HTML_TEMPLATE(form_name, content) ==
    <<"\n<!DOCTYPE html>\n<html>\n<head>\n    <title>">> \o form_name
        \o <<"</title>\n    <link rel=\"stylesheet\" href=\"styles.css\">\n    <link rel=\"preconnect\" href=\"https://fonts.googleapis.com\">\n<link rel=\"preconnect\" href=\"https://fonts.gstatic.com\" crossorigin>\n<link href=\"https://fonts.googleapis.com/css2?family=Source+Sans+3:ital,wght@0,200..900;1,200..900&display=swap\" rel=\"stylesheet\">\n</head>\n<body>\n    ">>
        \o content \o <<"\n</body>\n</html>\n">>

\* globals(): names bound at module level. Of them only slugify is a function
\* of one str; spec, forms, form and id, among the others, are bound to a
\* dict, a list, a Form and a str, and calling them raises TypeError.
GlobalCallables == {"slugify"}
GlobalOthers == {"spec", "forms", "form", "id"}
Globals == GlobalCallables \cup GlobalOthers

\* The class-level defaults str(uuid.uuid4()), each evaluated once when its
\* class body runs.
ItemDefaultId == <<"uuid-of-FormItem">>
FormDefaultId == <<"uuid-of-Form">>

\* The Post object frontmatter.loads("") that is the class-level default of
\* Form.front_matter; post is its metadata.
DefaultPost == [ref |-> "Post"]

\* The key _serialize_as_front_matter sets to the form's name.
FormNameKey == <<"f","o","r","m","_","n","a","m","e">>

-----------------------------------------------------------------------------
(* FormItem.                                                                 *)

Ok(v) == [status |-> "ok", value |-> v]
Raise(e) == [status |-> e]

\* FormItem(**spec): pydantic fills the fields a specification leaves out.
FormItem(spec) ==
    [name        |-> spec.name,
     value       |-> IF "value" \in DOMAIN spec THEN spec.value ELSE <<>>,
     placeholder |-> IF "placeholder" \in DOMAIN spec THEN spec.placeholder ELSE <<>>,
     html_type   |-> IF "html_type" \in DOMAIN spec THEN spec.html_type ELSE "text",
     id          |-> IF "id" \in DOMAIN spec THEN spec.id ELSE ItemDefaultId,
     hooks       |-> IF "hooks" \in DOMAIN spec THEN spec.hooks ELSE <<>>]

\* FormItem._serialize_as_html without the label element.
FormItemControlOnly(x) ==
    IF x.html_type \in RenderTypes
    THEN Ok(RENDER_FUNCTIONS(x.html_type, x))
    ELSE Raise("KeyError")

\* FormItem._serialize_as_html with RENDER_FUNCTIONS.get(html_type, the text
\* renderer) for the lookup.
FormItemTextByDefault(x) ==
    Ok(<<"<label for='">> \o x.id \o <<"'>">> \o x.name \o <<"</label>">>
        \o RENDER_FUNCTIONS(IF x.html_type \in RenderTypes THEN x.html_type ELSE "text",
                            x))

\* FormItem._serialize_as_html
FormItem_serialize_as_html(x) ==
    IF x.html_type \in RenderTypes
    THEN Ok(<<"<label for='">> \o x.id \o <<"'>">> \o x.name \o <<"</label>">>
                \o RENDER_FUNCTIONS(x.html_type, x))
    ELSE Raise("KeyError")

\* globals()[hook](value)
CallHook(hook, value) ==
    IF hook \notin Globals THEN Raise("KeyError")
    ELSE IF hook \notin GlobalCallables THEN Raise("TypeError")
    ELSE Ok(slugify(value))

\* FormItem._run_hooks from hook number k on: the value is assigned after each
\* hook, so the hooks before a failing one have taken effect.
RECURSIVE RunHooksFrom(_, _, _)
RunHooksFrom(value, hooks, k) ==
    IF k > Len(hooks) THEN Ok(value)
    ELSE LET r == CallHook(hooks[k], value)
         IN  IF r.status = "ok" THEN RunHooksFrom(r.value, hooks, k + 1)
             ELSE [status |-> r.status, value |-> value]

\* FormItem._run_hooks with the result of each hook dropped, not assigned.
RunHooksDiscarding(x) ==
    [status |-> RunHooksFrom(x.value, x.hooks, 1).status, value |-> x.value]

FormItem_run_hooks(x) == RunHooksFrom(x.value, x.hooks, 1)

-----------------------------------------------------------------------------
(* Group and Form.                                                           *)

Group(spec) ==
    [name  |-> spec.name,
     items |-> [i \in 1..Len(spec.items) |-> FormItem(spec.items[i])]]

\* Form(**specification)
Form(spec) ==
    [name         |-> spec.name,
     groups       |-> [g \in 1..Len(spec.groups) |-> Group(spec.groups[g])],
     front_matter |-> IF "front_matter" \in DOMAIN spec
                      THEN [str |-> spec.front_matter] ELSE DefaultPost,
     id           |-> IF "id" \in DOMAIN spec THEN spec.id ELSE FormDefaultId]

\* pydantic's validation of the required fields (name of a FormItem; name and
\* items of a Group; name and groups of a Form).
Validates(spec) ==
    /\ {"name", "groups"} \subseteq DOMAIN spec
    /\ \A g \in 1..Len(spec.groups) :
          /\ {"name", "items"} \subseteq DOMAIN spec.groups[g]
          /\ \A i \in 1..Len(spec.groups[g].items) :
                "name" \in DOMAIN spec.groups[g].items[i]

\* The inner loop of Form._serialize_as_html, from item k on.
RECURSIVE ItemsHtml(_, _)
ItemsHtml(items, k) ==
    IF k > Len(items) THEN Ok(<<>>)
    ELSE LET r == FormItem_serialize_as_html(items[k])
         IN  IF r.status # "ok" THEN r
             ELSE LET rest == ItemsHtml(items, k + 1)
                  IN  IF rest.status # "ok" THEN rest
                      ELSE Ok(r.value \o rest.value)

\* The outer loop of Form._serialize_as_html with no wrapper for a group that
\* has no items.
RECURSIVE GroupsHtmlSkippingEmpty(_, _)
GroupsHtmlSkippingEmpty(groups, k) ==
    IF k > Len(groups) THEN Ok(<<>>)
    ELSE LET r == ItemsHtml(groups[k].items, 1)
         IN  IF r.status # "ok" THEN r
             ELSE LET rest == GroupsHtmlSkippingEmpty(groups, k + 1)
                  IN  IF rest.status # "ok" THEN rest
                      ELSE IF groups[k].items = <<>> THEN rest
                      ELSE Ok(<<"<div class='group' id='">> \o groups[k].name
                                \o <<"'>">> \o r.value \o <<"</div>">>
                                \o rest.value)

\* The outer loop of Form._serialize_as_html, from group k on.
RECURSIVE GroupsHtml(_, _)
GroupsHtml(groups, k) ==
    IF k > Len(groups) THEN Ok(<<>>)
    ELSE LET r == ItemsHtml(groups[k].items, 1)
         IN  IF r.status # "ok" THEN r
             ELSE LET rest == GroupsHtml(groups, k + 1)
                  IN  IF rest.status # "ok" THEN rest
                      ELSE Ok(<<"<div class='group' id='">> \o groups[k].name
                                \o <<"'>">> \o r.value \o <<"</div>">>
                                \o rest.value)

\* Form._serialize_as_html
Form_serialize_as_html(form) ==
    LET r == GroupsHtml(form.groups, 1)
    IN  IF r.status # "ok" THEN r
        ELSE Ok(<<"<h1>">> \o form.name \o <<"</h1><form action='/">> \o form.id
                  \o <<"' method='POST'>">> \o r.value \o <<"</form>">>)

\* front_matter[key] = value
SetItem(m, key, value) ==
    [k \in DOMAIN m \cup {key} |-> IF k = key THEN value ELSE m[k]]

\* The inner loop of Form._serialize_as_front_matter without the test for
\* CONTROL_TYPES.
RECURSIVE FrontMatterItemsAll(_, _, _)
FrontMatterItemsAll(items, m, k) ==
    IF k > Len(items) THEN [status |-> "ok", items |-> items, m |-> m]
    ELSE LET r   == FormItem_run_hooks(items[k])
             its == [items EXCEPT ![k].value = r.value]
         IN  IF r.status # "ok"
             THEN [status |-> r.status, items |-> its, m |-> m]
             ELSE FrontMatterItemsAll(its, SetItem(m, lower(items[k].name), r.value),
                                      k + 1)

\* The inner loop of Form._serialize_as_front_matter, from item k on: the
\* items as the loop leaves them, the metadata, and how the loop ended.
RECURSIVE FrontMatterItems(_, _, _)
FrontMatterItems(items, m, k) ==
    IF k > Len(items) THEN [status |-> "ok", items |-> items, m |-> m]
    ELSE IF items[k].html_type \in CONTROL_TYPES
    THEN FrontMatterItems(items, m, k + 1)
    ELSE LET r   == FormItem_run_hooks(items[k])
             its == [items EXCEPT ![k].value = r.value]
         IN  IF r.status # "ok"
             THEN [status |-> r.status, items |-> its, m |-> m]
             ELSE FrontMatterItems(its, SetItem(m, lower(items[k].name), r.value),
                                   k + 1)

\* The outer loop of Form._serialize_as_front_matter, from group k on.
RECURSIVE FrontMatterGroups(_, _, _)
FrontMatterGroups(groups, m, k) ==
    IF k > Len(groups) THEN [status |-> "ok", groups |-> groups, m |-> m]
    ELSE LET r  == FrontMatterItems(groups[k].items, m, 1)
             gs == [groups EXCEPT ![k].items = r.items]
         IN  IF r.status # "ok"
             THEN [status |-> r.status, groups |-> gs, m |-> r.m]
             ELSE FrontMatterGroups(gs, r.m, k + 1)

\* Form._serialize_as_front_matter with form_name set after the loop.
FrontMatterFormNameLast(form, m) ==
    IF form.front_matter # DefaultPost
    THEN [status |-> "TypeError", groups |-> form.groups, m |-> m]
    ELSE LET r == FrontMatterGroups(form.groups, m, 1)
         IN  IF r.status # "ok" THEN r
             ELSE [r EXCEPT !.m = SetItem(r.m, FormNameKey, form.name)]

\* Form._serialize_as_front_matter, m being the metadata of the default Post:
\* a front_matter given in the specification is a str, and assigning an item
\* of a str raises TypeError.
Form_serialize_as_front_matter(form, m) ==
    IF form.front_matter # DefaultPost
    THEN [status |-> "TypeError", groups |-> form.groups, m |-> m]
    ELSE FrontMatterGroups(form.groups, SetItem(m, FormNameKey, form.name), 1)

-----------------------------------------------------------------------------
(* The state and the operations.                                             *)

Forms == 1..Len(forms)

NoFile  == [exists |-> FALSE, content |-> <<>>, open |-> FALSE]
OldFile == [exists |-> TRUE, content |-> <<"previous content">>, open |-> FALSE]

Init ==
    /\ forms = <<>>
    /\ post = <<>>
    /\ loaded = <<>>
    /\ calls = <<>>
    /\ result = [op |-> "none", status |-> "ok"]
    /\ file \in {NoFile, OldFile}

RECURSIVE SumLen(_)
SumLen(ss) == IF ss = <<>> THEN 0 ELSE Len(Head(ss)) + SumLen(Tail(ss))
TotalGroups == SumLen([f \in Forms |-> forms[f].groups])
NumItems(form) == SumLen([g \in 1..Len(form.groups) |-> form.groups[g].items])
RECURSIVE Sum(_)
Sum(ns) == IF ns = <<>> THEN 0 ELSE Head(ns) + Sum(Tail(ns))
TotalItems == Sum([f \in Forms |-> NumItems(forms[f])])

\* Form.load_from_specification, for a specification that gives every group
\* its items, while the forms stay within the bounds.
LoadFromSpecification(spec) ==
    /\ Len(forms) < MaxForms
    /\ TotalGroups + Len(spec.groups) <= MaxGroups
    /\ TotalItems + SumLen([g \in 1..Len(spec.groups) |-> spec.groups[g].items])
          <= MaxItems
    /\ IF Validates(spec)
       THEN /\ forms' = Append(forms, Form(spec))
            /\ loaded' = Append(loaded, Form(spec))
            /\ calls' = Append(calls, 0)
            /\ result' = [op |-> "load", form |-> Len(forms) + 1, status |-> "ok"]
       ELSE /\ result' = [op |-> "load", form |-> 0, status |-> "ValidationError"]
            /\ UNCHANGED <<forms, loaded, calls>>
    /\ UNCHANGED <<post, file>>

\* FormItem._serialize_as_html on item i of group g of form f
ItemSerializeAsHtml(f, g, i) ==
    /\ result' = [op |-> "item_html", form |-> f, group |-> g, item |-> i]
                    @@ FormItem_serialize_as_html(forms[f].groups[g].items[i])
    /\ UNCHANGED <<forms, post, loaded, calls, file>>

\* Form._serialize_as_html running the hooks of each item it renders.
SerializeAsHtmlRunningHooks(f) ==
    LET hooked == [forms[f] EXCEPT !.groups =
                      FrontMatterGroups(forms[f].groups, post, 1).groups]
    IN  /\ result' = [op |-> "html", form |-> f] @@ Form_serialize_as_html(hooked)
        /\ forms' = [forms EXCEPT ![f] = hooked]
        /\ UNCHANGED <<post, loaded, calls, file>>

\* Form._serialize_as_html on form f
SerializeAsHtml(f) ==
    /\ result' = [op |-> "html", form |-> f] @@ Form_serialize_as_html(forms[f])
    /\ UNCHANGED <<forms, post, loaded, calls, file>>

\* Form.save_to_file with the form rendered before the file is opened.
SaveToFileRenderingFirst(f, writable) ==
    /\ LET r == Form_serialize_as_html(forms[f])
       IN  IF r.status # "ok"
           THEN /\ result' = [op |-> "save", form |-> f, status |-> r.status]
                /\ UNCHANGED file
           ELSE IF ~writable
           THEN /\ result' = [op |-> "save", form |-> f, status |-> "OSError"]
                /\ UNCHANGED file
           ELSE /\ result' = [op |-> "save", form |-> f, status |-> "ok"]
                /\ file' = [exists  |-> TRUE,
                            content |-> HTML_TEMPLATE(forms[f].name, r.value),
                            open    |-> FALSE]
    /\ UNCHANGED <<forms, post, loaded, calls>>

\* Form.save_to_file on form f: open(path, "w") creates or truncates the file
\* before the argument of file.write is evaluated, and the with statement
\* closes the file on both exits.
SaveToFile(f, writable) ==
    /\ IF ~writable
       THEN /\ result' = [op |-> "save", form |-> f, status |-> "OSError"]
            /\ UNCHANGED file
       ELSE LET r == Form_serialize_as_html(forms[f])
            IN  /\ result' = [op |-> "save", form |-> f, status |-> r.status]
                /\ file' = [exists  |-> TRUE,
                            content |-> IF r.status = "ok"
                                        THEN HTML_TEMPLATE(forms[f].name, r.value)
                                        ELSE <<>>,
                            open    |-> FALSE]
    /\ UNCHANGED <<forms, post, loaded, calls>>

\* Form._serialize_as_front_matter on form f. It returns front_matter.metadata.
SerializeAsFrontMatter(f) ==
    /\ calls[f] < MaxCalls
    /\ LET r == Form_serialize_as_front_matter(forms[f], post)
       IN  /\ forms' = [forms EXCEPT ![f].groups = r.groups]
           /\ post' = r.m
           /\ calls' = [calls EXCEPT ![f] = IF r.status = "ok" THEN @ + 1 ELSE @]
           /\ result' = IF r.status = "ok"
                        THEN [op |-> "front_matter", form |-> f, status |-> "ok",
                              value |-> r.m]
                        ELSE [op |-> "front_matter", form |-> f, status |-> r.status]
    /\ UNCHANGED <<loaded, file>>

-----------------------------------------------------------------------------
(* The specifications the forms are loaded from.                             *)

\* The group names, the form name and strings of the specification forms.py
\* itself loads (each kept as one element: no operation looks inside them).
GroupNames == <<<<"Post Details">>, <<"Meta Information">>, <<"Publish">>,
                <<"Group 4">>>>
FormName == <<"Publish a Blog Post">>

SeqsUpTo(S, n) == UNION {[1..k -> S] : k \in 0..n}

\* The ways to cut n items into at most g consecutive groups (a group may be
\* empty).
Splits(n, g) == {sizes \in SeqsUpTo(0..n, g) : Sum(sizes) = n}

\* The specification with these form-level keys whose groups hold the items,
\* in order, cut as sizes says.
Specification(keys, items, sizes) ==
    keys @@
    [groups |->
        [g \in 1..Len(sizes) |->
            [name  |-> GroupNames[g],
             items |-> SubSeq(items,
                              Sum(SubSeq(sizes, 1, g - 1)) + 1,
                              Sum(SubSeq(sizes, 1, g)))]]]

\* The specifications over a pool of item specifications that still fit the
\* bounds.
Specifications(FormKeys, Pool) ==
    {Specification(keys, items, sizes) :
        keys \in FormKeys,
        <<items, sizes>> \in
            {p \in SeqsUpTo(Pool, MaxItems - TotalItems)
                     \X SeqsUpTo(0..(MaxItems - TotalItems), MaxGroups - TotalGroups) :
                Sum(p[2]) = Len(p[1])}}

\* The items of the specification forms.py loads, cut short: a text item
\* with a hook, the submit button whose value is its name, and an item of a
\* type that has no renderer.
ExampleItems ==
    {[name |-> <<"S","l","u","g">>, value |-> <<"P","O"," ","E","X">>,
      html_type |-> "text", hooks |-> <<"slugify">>],
     [name |-> <<"P","u","b">>, value |-> <<"P","u","b">>, html_type |-> "submit"],
     [name |-> <<"H","u","e">>, value |-> <<"R","e","d">>, html_type |-> "color"]}

ExampleFormKeys ==
    {[name |-> FormName], [name |-> FormName, id |-> <<"blog">>]}

\* Item specifications: every html_type with a renderer and one without, with
\* and without an id of its own, and one whose value is its name (as the
\* Publish button of forms.py).
HtmlItems ==
    {[name |-> <<"T">>, value |-> <<"A", " ">>, placeholder |-> <<"hint">>,
      html_type |-> t] : t \in RenderTypes \cup {"color"}}
    \cup {[name |-> <<"t">>, html_type |-> "textarea", id |-> <<"body">>],
          [name |-> <<"P">>, value |-> <<"P">>, html_type |-> "submit",
           id |-> <<"pub">>]}

HtmlFormKeys ==
    {[name |-> FormName], [name |-> FormName, id |-> <<"blog">>]}

\* Item specifications: names that differ by case only or lowercase to
\* form_name, submit and other types, hooks that are functions, that are
\* other globals, and that are no global; and one without the required name.
HookItems ==
    {[name |-> n, value |-> <<"A", " ">>, html_type |-> t, hooks |-> <<"slugify">>] :
        n \in {<<"T">>, <<"F","o","r","m","_","N","a","m","e">>},
        t \in {"text", "submit"}}
    \cup {[name |-> <<"t">>, value |-> <<"b">>],
          [name |-> <<"t">>, value |-> <<"B", " ">>, html_type |-> "color",
           hooks |-> <<"slugify", "slugify">>],
          [name |-> <<"t">>, value |-> <<"B", " ">>, html_type |-> "email",
           hooks |-> <<"slugify", "nohook">>],
          [name |-> <<"T">>, html_type |-> "submit", hooks |-> <<"nohook">>],
          [name |-> <<"t">>, html_type |-> "textarea", hooks |-> <<"spec">>],
          [value |-> <<"b">>]}

HookFormKeys ==
    {[name |-> FormName], [name |-> FormName, front_matter |-> <<>>]}

\* Item specifications with and without an id of their own.
IdItems ==
    {[name |-> <<"T">>], [name |-> <<"T">>, id |-> <<"a">>],
     [name |-> <<"t">>, id |-> <<"b">>]}

IdFormKeys ==
    {[name |-> FormName], [name |-> FormName, id |-> <<"blog">>],
     [name |-> FormName, id |-> <<"news">>]}

-----------------------------------------------------------------------------
(* The specifications of the model.                                          *)

\* forms.py loads one specification: forms = [Form.load_from_specification(spec)]
LoadOne(FormKeys, Pool) ==
    /\ forms = <<>>
    /\ \E spec \in Specifications(FormKeys, Pool) : LoadFromSpecification(spec)

\* Every operation, on one form loaded from the items of forms.py.
Next ==
    \/ LoadOne(ExampleFormKeys, ExampleItems)
    \/ \E f \in Forms : \E g \in 1..Len(forms[f].groups) :
          \E i \in 1..Len(forms[f].groups[g].items) : ItemSerializeAsHtml(f, g, i)
    \/ \E f \in Forms : SerializeAsHtml(f)
    \/ \E f \in Forms : \E writable \in BOOLEAN : SaveToFile(f, writable)
    \/ \E f \in Forms : SerializeAsFrontMatter(f)

Spec == Init /\ [][Next]_vars

\* The start of forms.py in a directory that has no form.html.
InitNoFile == Init /\ file = NoFile

\* Rendering, over every html_type.
NextHtml ==
    \/ LoadOne(HtmlFormKeys, HtmlItems)
    \/ \E f \in Forms : \E g \in 1..Len(forms[f].groups) :
          \E i \in 1..Len(forms[f].groups[g].items) : ItemSerializeAsHtml(f, g, i)
    \/ \E f \in Forms : SerializeAsHtml(f)

SpecHtml == InitNoFile /\ [][NextHtml]_vars

\* The front-matter export, over names and hooks.
NextHooks ==
    \/ LoadOne(HookFormKeys, HookItems)
    \/ \E f \in Forms : \E g \in 1..Len(forms[f].groups) :
          \E i \in 1..Len(forms[f].groups[g].items) : ItemSerializeAsHtml(f, g, i)
    \/ \E f \in Forms : SerializeAsHtml(f)
    \/ \E f \in Forms : SerializeAsFrontMatter(f)

SpecHooks == InitNoFile /\ [][NextHooks]_vars

\* Several forms, with and without ids of their own.
NextIds ==
    \/ \E spec \in Specifications(IdFormKeys, IdItems) : LoadFromSpecification(spec)
    \/ \E f \in Forms : SerializeAsHtml(f)

SpecIds == InitNoFile /\ [][NextIds]_vars

-----------------------------------------------------------------------------
(* What the claims speak of.                                                 *)

RECURSIVE Flatten(_)
Flatten(ss) == IF ss = <<>> THEN <<>> ELSE Head(ss) \o Flatten(Tail(ss))

\* The items of a form, in group and item order.
ItemsOf(form) == Flatten([g \in 1..Len(form.groups) |-> form.groups[g].items])

AllItems == Flatten([f \in Forms |-> ItemsOf(forms[f])])

Supported(form) ==
    \A i \in 1..Len(ItemsOf(form)) : ItemsOf(form)[i].html_type \in HTML_TYPE

\* The form the last operation was on.
Subject == forms[result.form]

Returned(op) == result.op = op /\ result.status = "ok"

\* The k-th smallest element of a set of numbers.
Kth(S, k) == CHOOSE p \in S : Cardinality({q \in S : q < p}) = k - 1

-----------------------------------------------------------------------------
(* C3 *)

WrapperOpen == "<div class='group' id='"

WrapperStarts(h) == {p \in 1..Len(h) : h[p] = WrapperOpen}

\* The wrapper element of a group, from the fragments of its items.
Wrapper(group) ==
    <<WrapperOpen>> \o group.name \o <<"'>">>
        \o Flatten([i \in 1..Len(group.items) |->
                        FormItem_serialize_as_html(group.items[i]).value])
        \o <<"</div>">>

FormOpen(form) ==
    <<"<h1>">> \o form.name \o <<"</h1><form action='/">> \o form.id
        \o <<"' method='POST'>">>

\* C3: the HTML a form of N groups renders to is one form element, opened with
\* action '/<form id>' and method POST, that holds exactly N group wrappers and
\* nothing else: the k-th wrapper is keyed by the name of group k and holds the
\* fragments of the items of group k, in item order.
C3_GroupWrappers ==
    Returned("html") =>
        LET h      == result.value
            groups == Subject.groups
            starts == WrapperStarts(h)
            open   == FormOpen(Subject)
        IN  /\ Cardinality(starts) = Len(groups)
            /\ SubSeq(h, 1, Len(open)) = open
            /\ h[Len(h)] = "</form>"
            /\ Cardinality({p \in 1..Len(h) : h[p] = "</form>"}) = 1
            /\ Cardinality({p \in 1..Len(h) : h[p] = "</h1><form action='/"}) = 1
            /\ \A k \in 1..Len(groups) :
                  LET from == Kth(starts, k)
                      to   == from + Len(Wrapper(groups[k])) - 1
                  IN  /\ from = IF k = 1 THEN Len(open) + 1
                                ELSE Kth(starts, k - 1) + Len(Wrapper(groups[k - 1]))
                      /\ SubSeq(h, from, to) = Wrapper(groups[k])
                      /\ k = Len(groups) => to = Len(h) - 1
            /\ groups = <<>> => Len(h) = Len(open) + 1

\* A form of two groups, each with an item, has been rendered.
C3_Witness ==
    /\ Returned("html")
    /\ Len(Subject.groups) = 2
    /\ \A g \in 1..2 : Len(Subject.groups[g].items) = 1
    /\ Subject.groups[1].items[1].html_type # Subject.groups[2].items[1].html_type

-----------------------------------------------------------------------------
(* C4 *)

\* The item the last FormItem._serialize_as_html was on.
SubjectItem == Subject.groups[result.group].items[result.item]

\* No field of the item is empty or occurs inside another of its fields.
Separable(x) ==
    LET fields == <<x.id, x.name, x.value, x.placeholder>>
    IN  \A a, b \in 1..4 :
            /\ fields[a] # <<>>
            /\ a # b => Occurrences(fields[a], fields[b]) = 0

\* C4 as stated: the HTML of an item of a supported type contains the item's
\* id once, its name once and, unless the type is submit, its placeholder once.
C4_ExactlyOnce ==
    Returned("item_html") =>
        /\ Occurrences(SubjectItem.id, result.value) = 1
        /\ Occurrences(SubjectItem.name, result.value) = 1
        /\ SubjectItem.html_type # "submit" =>
              Occurrences(SubjectItem.placeholder, result.value) = 1

\* C4 as amended: the HTML of an item of a supported type contains the id at
\* least twice and the name at least twice (in the label and in the control)
\* and, unless the type is submit, the placeholder at least once; when no
\* field of the item is empty or occurs inside another, it contains the id
\* exactly twice, the name exactly twice, and the placeholder exactly once, or
\* not at all when the type is submit.
C4_LabelAndControl ==
    Returned("item_html") =>
        LET x == SubjectItem
            h == result.value
        IN  /\ x.html_type \in HTML_TYPE
            /\ Occurrences(x.id, h) >= 2
            /\ Occurrences(x.name, h) >= 2
            /\ x.html_type # "submit" => Occurrences(x.placeholder, h) >= 1
            /\ Separable(x) =>
                  /\ Occurrences(x.id, h) = 2
                  /\ Occurrences(x.name, h) = 2
                  /\ Occurrences(x.placeholder, h)
                        = IF x.html_type = "submit" THEN 0 ELSE 1

\* An item whose fields are apart has been rendered with an input control.
C4_Witness ==
    /\ Returned("item_html")
    /\ Separable(SubjectItem)
    /\ SubjectItem.html_type = "email"
    /\ Occurrences(SubjectItem.id, result.value) = 2

-----------------------------------------------------------------------------
(* C5 *)

\* C5 as stated: no two FormItems share an id and no two Forms share an id,
\* also when the specification gives no id and the default is used.
C5_UniqueIds ==
    /\ \A i, j \in 1..Len(AllItems) : i # j => AllItems[i].id # AllItems[j].id
    /\ \A f, g \in Forms : f # g => forms[f].id # forms[g].id

-----------------------------------------------------------------------------
(* C1 *)

NotControl(x) == x.html_type \notin CONTROL_TYPES

\* The items of a form that are not of a control-only type, in order.
Exported(form) == SelectSeq(ItemsOf(form), NotControl)

\* The last exported item of a form whose lowercase name is key.
LastNamed(form, key) ==
    LET xs == Exported(form)
    IN  xs[CHOOSE i \in 1..Len(xs) :
              /\ lower(xs[i].name) = key
              /\ \A j \in (i + 1)..Len(xs) : lower(xs[j].name) # key]

ExportedKeys == {lower(AllItems[i].name) : i \in {j \in 1..Len(AllItems) : NotControl(AllItems[j])}}

\* C1 as stated: the mapping _serialize_as_front_matter returns maps the
\* lowercase name of every item that is not a submit item to the value of that
\* item, and no key comes from a submit item.
C1_EveryItemItsValue ==
    Returned("front_matter") =>
        /\ \A i \in 1..Len(Exported(Subject)) :
              LET x == Exported(Subject)[i]
              IN  /\ lower(x.name) \in DOMAIN result.value
                  /\ result.value[lower(x.name)] = x.value
        /\ DOMAIN result.value \subseteq {FormNameKey} \cup ExportedKeys

\* C1 as amended: the mapping has the lowercase name of every item that is not
\* a submit item as a key, mapped to the value, after its hooks, of the last
\* such item with that lowercase name; every key is form_name or the lowercase
\* name of an item that is not a submit item.
C1_LastItemWins ==
    Returned("front_matter") =>
        /\ \A i \in 1..Len(Exported(Subject)) :
              LET key == lower(Exported(Subject)[i].name)
              IN  /\ key \in DOMAIN result.value
                  /\ result.value[key] = LastNamed(Subject, key).value
        /\ DOMAIN result.value \subseteq {FormNameKey} \cup ExportedKeys

\* The export has returned for a form with two items, neither a submit item,
\* whose names differ by case only and whose values differ.
C1_Witness ==
    /\ Returned("front_matter")
    /\ Len(Exported(Subject)) = 2
    /\ Exported(Subject)[1].name # Exported(Subject)[2].name
    /\ lower(Exported(Subject)[1].name) = lower(Exported(Subject)[2].name)
    /\ Exported(Subject)[1].value # Exported(Subject)[2].value

-----------------------------------------------------------------------------
(* C2 *)

NamedFormName(form) ==
    \E i \in 1..Len(Exported(form)) : lower(Exported(form)[i].name) = FormNameKey

\* C2 as stated: the mapping returned maps form_name to the name of the form.
C2_FormNameIsName ==
    Returned("front_matter") =>
        /\ FormNameKey \in DOMAIN result.value
        /\ result.value[FormNameKey] = Subject.name

\* C2 as amended: the mapping returned maps form_name to the name of the form,
\* unless an item that is not a submit item has the lowercase name form_name:
\* then it maps form_name to the value of the last such item.
C2_FormNameUnlessItem ==
    Returned("front_matter") =>
        /\ FormNameKey \in DOMAIN result.value
        /\ result.value[FormNameKey] =
              IF NamedFormName(Subject)
              THEN LastNamed(Subject, FormNameKey).value
              ELSE Subject.name

\* The export has returned for a form with a text item named Form_Name.
C2_Witness ==
    /\ Returned("front_matter")
    /\ NamedFormName(Subject)
    /\ result.value[FormNameKey] # Subject.name

-----------------------------------------------------------------------------
(* C6 *)

RECURSIVE SlugifyTimes(_, _)
SlugifyTimes(value, n) == IF n = 0 THEN value ELSE SlugifyTimes(slugify(value), n - 1)

\* Item number i of form f, now and as loaded.
Now(f, i) == ItemsOf(forms[f])[i]
AsLoaded(f, i) == ItemsOf(loaded[f])[i]

\* After k >= 1 calls that returned, the value of every item that is not a
\* submit item is its hooks applied k times to the value it was loaded with
\* (its hooks are all slugify, or no call would have returned); the value of a
\* submit item is the value it was loaded with.
HooksAppliedPerCall ==
    \A f \in Forms : \A i \in 1..Len(ItemsOf(forms[f])) :
        IF NotControl(Now(f, i))
        THEN calls[f] >= 1 =>
                /\ \A h \in 1..Len(Now(f, i).hooks) : Now(f, i).hooks[h] = "slugify"
                /\ Now(f, i).value =
                      SlugifyTimes(AsLoaded(f, i).value,
                                   calls[f] * Len(Now(f, i).hooks))
        ELSE Now(f, i).value = AsLoaded(f, i).value

\* The hook names of the items that are not submit items, in item and list
\* order.
HooksInOrder(form) ==
    Flatten([i \in 1..Len(Exported(form)) |-> Exported(form)[i].hooks])

\* How calling these hooks one after the other ends.
FirstFailure(hooks) ==
    LET bad == {k \in 1..Len(hooks) : hooks[k] # "slugify"}
    IN  IF bad = {} THEN "ok"
        ELSE IF hooks[Kth(bad, 1)] \in Globals THEN "TypeError" ELSE "KeyError"

\* The hooks run in item and list order: a call on a form with the default
\* front matter ends as the first hook that is no function ends.
HooksRunInOrder ==
    result.op = "front_matter" /\ Subject.front_matter = DefaultPost =>
        result.status = FirstFailure(HooksInOrder(Subject))

-----------------------------------------------------------------------------
(* C7 *)

\* The form with every html_type that has no renderer replaced by text.
Retyped(form) ==
    [form EXCEPT !.groups =
        [g \in 1..Len(form.groups) |->
            [form.groups[g] EXCEPT !.items =
                [i \in 1..Len(form.groups[g].items) |->
                    [form.groups[g].items[i] EXCEPT !.html_type =
                        IF @ \in HTML_TYPE THEN @ ELSE "text"]]]]]

\* C7: a form may hold an item whose html_type is none of the five; rendering
\* that item, or a form that holds such an item, raises KeyError and returns
\* no HTML (and rendering raises in no other case), while the front-matter
\* export of the form ends as it would if the type were text.
C7_UnknownTypeFailsAtRender ==
    /\ result.op = "item_html" =>
          IF SubjectItem.html_type \in HTML_TYPE
          THEN result.status = "ok"
          ELSE result.status = "KeyError" /\ "value" \notin DOMAIN result
    /\ result.op = "html" =>
          IF Supported(Subject)
          THEN result.status = "ok"
          ELSE result.status = "KeyError" /\ "value" \notin DOMAIN result
    /\ result.op = "front_matter" =>
          result.status = Form_serialize_as_front_matter(Retyped(Subject), post).status

\* The export has returned for a form that holds an item of an unknown type,
\* with a key for that item.
C7_Witness ==
    /\ Returned("front_matter")
    /\ ~Supported(Subject)
    /\ \E i \in 1..Len(ItemsOf(Subject)) :
          /\ Now(result.form, i).html_type \notin HTML_TYPE
          /\ lower(Now(result.form, i).name) \in DOMAIN result.value

-----------------------------------------------------------------------------
(* C8 *)

Unregistered(x) == \E h \in 1..Len(x.hooks) : x.hooks[h] \notin Globals

\* C8 as stated: a hook name that is not registered fails with a lookup error
\* when the hooks run and not before: loading and rendering do not depend on
\* the hooks, and the front-matter export fails, with a lookup error, exactly
\* when an item that is not a submit item lists a hook name that is not
\* registered.
C8_FailsExactlyWhenUnregistered ==
    /\ result.op = "html" => (result.status = "ok" <=> Supported(Subject))
    /\ result.op = "front_matter" =>
          /\ result.status # "ok" <=>
                \E i \in 1..Len(Exported(Subject)) : Unregistered(Exported(Subject)[i])
          /\ result.status \in {"ok", "KeyError"}

-----------------------------------------------------------------------------
(* C9 *)

\* What Form._serialize_as_html would return for form f.
Rendering(f) == Form_serialize_as_html(forms[f])

\* C9: a step that renders a form or an item changes no form, so no item's
\* value, name, id or hooks, and not the front matter, and it returns the HTML
\* of the form as it stands, so renders that follow one another return the
\* same HTML; and a step after which a form would render to something else is
\* a front-matter export of that form that has changed the value of an item.
C9_RenderingChangesNothing ==
    [][/\ result'.op \in {"html", "item_html"} =>
            /\ forms' = forms
            /\ post' = post
            /\ result.op = result'.op /\ result.form = result'.form
                  /\ result'.op = "html" => result' = result
       /\ result'.op = "html" =>
            result' = [op |-> "html", form |-> result'.form]
                         @@ Rendering(result'.form)
       /\ \A f \in Forms :
            forms'[f] # forms[f] /\ Rendering(f)' # Rendering(f) =>
               /\ result'.op = "front_matter"
               /\ result'.form = f
               /\ \E i \in 1..Len(ItemsOf(forms[f])) :
                     ItemsOf(forms'[f])[i].value # ItemsOf(forms[f])[i].value
      ]_vars

\* A form has been rendered after an export rewrote a value, to HTML other
\* than the HTML of the form as loaded.
C9_Witness ==
    /\ Returned("html")
    /\ calls[result.form] >= 1
    /\ result.value # Form_serialize_as_html(loaded[result.form]).value

-----------------------------------------------------------------------------
(* C10 *)

\* C10: when save_to_file ends with the KeyError of rendering, the file
\* exists, is empty and is closed, whatever it held before; when it returns,
\* the file is closed and holds the template with the name of the form as its
\* title and the rendered form as its body; rendering fails exactly for a
\* form with an item of an unknown type, if the file could be opened.
C10_TruncatedBeforeRendering ==
    result.op = "save" =>
        /\ result.status \in {"ok", "KeyError", "OSError"}
        /\ result.status = "KeyError" =>
              /\ ~Supported(Subject)
              /\ file = [exists |-> TRUE, content |-> <<>>, open |-> FALSE]
        /\ result.status = "ok" =>
              LET html == Form_serialize_as_html(Subject).value
                  name == Subject.name
              IN  /\ Supported(Subject)
                  /\ file.exists /\ ~file.open
                  /\ Len(file.content) = Len(name) + Len(html) + 3
                  /\ SubSeq(file.content, 2, Len(name) + 1) = name
                  /\ SubSeq(file.content, Len(name) + 3, Len(file.content) - 1) = html
                  /\ file.content = HTML_TEMPLATE(name, html)

\* save_to_file has failed in rendering a form with an item of an unknown
\* type, and left the file empty.
C10_Witness ==
    /\ result.op = "save"
    /\ result.status = "KeyError"
    /\ ~Supported(Subject)
    /\ file.exists /\ file.content = <<>>

====
